---- MODULE Spec2Model ----
(***************************************************************************)
(* Lost/found pet matching engine of the pet-management backend:           *)
(*   - utils/matchAlgorithm.ts : getGeoDistance, computeMatchScore         *)
(*   - jobs/matchScanner.ts    : scanForLostFoundMatches, hourly cron      *)
(*   - routes/petRoutes.ts     : PUT /pets/:id, POST /pets/:id/confirm-match*)
(*                                                                         *)
(* Representation of JavaScript values                                     *)
(*   string     a sequence of one-character strings, <<"d","o","g">>       *)
(*   undefined  the reserved value Undefined (an optional field not set)   *)
(*   number     fixed point integers; units are stated at each operator    *)
(*   NaN        the reserved number NaN                                    *)
(*   a thrown TypeError is the reserved result TypeError                   *)
(***************************************************************************)
EXTENDS Integers, Sequences, FiniteSets, TLC

VARIABLES
    build,      \* compilation target of the TypeScript build: "es5" | "es2015"
    pets,       \* the Pet collection (MatchStore): pet id -> stored document
    scan,       \* the running scanForLostFoundMatches invocation
    requests,   \* sendNotification calls made by the scanner, in order
    scored,     \* (lost, found) pairs handed to computeMatchScore in the current tick
    visited,    \* (lost, found) pairs the current tick has iterated over
    tick,       \* history of ticks: number started, outcome of the last finished one
    hist,       \* history: store snapshots taken when ticks finish, modification marks
    lastOp,     \* the last HTTP operation handled and its response
    budget,     \* remaining HTTP operations (bounds the exploration)
    argLost,    \* scorer harness: first argument of computeMatchScore
    argFound,   \* scorer harness: second argument of computeMatchScore
    score,      \* scorer harness: value returned for (argLost, argFound)
    last,       \* scorer harness: the value returned before the last change of an
                \* argument, and whether that change improved one attribute
    geo,        \* distance harness: two points and the values of getGeoDistance
    second,     \* a scanForLostFoundMatches invocation started while scan is running
    reports,    \* the LostPet collection: the reports, in order of creation
    order       \* the order in which the store returns the documents of a find

vars == <<build, pets, scan, requests, scored, visited, tick, hist, lastOp,
          budget, argLost, argFound, score, last, geo, second, reports, order>>

storeVars == <<build, pets, scan, requests, scored, visited, tick, hist, lastOp, budget,
               second, reports, order>>
scoreVars == <<argLost, argFound, score, last, geo>>

(***************************************************************************)
(* JavaScript primitives                                                   *)
(***************************************************************************)
Undefined == <<"#undefined">>
NaN == -1
TypeError == -2

\* JS truthiness of an optional string: undefined and "" are falsy
Truthy(s) == s # Undefined /\ Len(s) > 0

\* String.prototype.toLowerCase, one character (the letters A-Z)
LowerChar(c) ==
    CASE c = "A" -> "a" [] c = "B" -> "b" [] c = "C" -> "c" [] c = "D" -> "d"
      [] c = "E" -> "e" [] c = "F" -> "f" [] c = "G" -> "g" [] c = "H" -> "h"
      [] c = "I" -> "i" [] c = "J" -> "j" [] c = "K" -> "k" [] c = "L" -> "l"
      [] c = "M" -> "m" [] c = "N" -> "n" [] c = "O" -> "o" [] c = "P" -> "p"
      [] c = "Q" -> "q" [] c = "R" -> "r" [] c = "S" -> "s" [] c = "T" -> "t"
      [] c = "U" -> "u" [] c = "V" -> "v" [] c = "W" -> "w" [] c = "X" -> "x"
      [] c = "Y" -> "y" [] c = "Z" -> "z"
      [] OTHER -> c

\* String.prototype.toLowerCase
toLowerCase(s) == [k \in 1..Len(s) |-> LowerChar(s[k])]

\* String.prototype.includes: sub occurs in s as a contiguous run
includes(s, sub) ==
    \E k \in 0..(Len(s) - Len(sub)) :
        \A m \in 1..Len(sub) : s[k + m] = sub[m]

\* division truncating toward zero (sign-symmetric, as IEEE arithmetic is)
SDiv(a, b) == IF a >= 0 THEN a \div b ELSE -((-a) \div b)

Abs(x) == IF x >= 0 THEN x ELSE -x

DigitChars == {"0", "1", "2", "3", "4", "5", "6", "7", "8", "9"}

DigitVal(c) ==
    CASE c = "0" -> 0 [] c = "1" -> 1 [] c = "2" -> 2 [] c = "3" -> 3
      [] c = "4" -> 4 [] c = "5" -> 5 [] c = "6" -> 6 [] c = "7" -> 7
      [] c = "8" -> 8 [] c = "9" -> 9

RECURSIVE SkipSpaces(_, _)
SkipSpaces(s, k) ==
    IF k <= Len(s) /\ s[k] = " " THEN SkipSpaces(s, k + 1) ELSE k

\* index one past the run of digits starting at k
RECURSIVE DigitsEnd(_, _)
DigitsEnd(s, k) ==
    IF k <= Len(s) /\ s[k] \in DigitChars THEN DigitsEnd(s, k + 1) ELSE k

\* value of the digit run s[from .. to-1]
RECURSIVE DigitsValue(_, _, _, _)
DigitsValue(s, from, to, acc) ==
    IF from >= to THEN acc
    ELSE DigitsValue(s, from + 1, to, acc * 10 + DigitVal(s[from]))

\* parseFloat: leading white space, optional sign, digits, optional fraction;
\* the longest numeric prefix is converted and the rest ignored; no digits at
\* all gives NaN.  The value is in tenths (one fractional digit is kept; the
\* age strings of the model carry at most one).  Result: [nan, v].

\* index one past the fraction that follows the integer digits ending before k2
\* (k2 itself when no "." stands there)
FractionEnd(s, k2) ==
    IF k2 <= Len(s) /\ s[k2] = "." THEN DigitsEnd(s, k2 + 1) ELSE k2

\* integer digits s[k1 .. k2-1], fraction digits s[k2+1 .. k3-1]
NumberOf(s, neg, k1, k2, k3) ==
    IF (k2 - k1) + (IF k3 > k2 THEN k3 - (k2 + 1) ELSE 0) = 0
    THEN [nan |-> TRUE, v |-> 0]
    ELSE [nan |-> FALSE,
          v |-> (IF neg THEN -1 ELSE 1)
                * (DigitsValue(s, k1, k2, 0) * 10
                   + (IF k3 > k2 + 1 THEN DigitVal(s[k2 + 1]) ELSE 0))]

ParseFraction(s, neg, k1, k2) == NumberOf(s, neg, k1, k2, FractionEnd(s, k2))

ParseDigits(s, neg, k1) == ParseFraction(s, neg, k1, DigitsEnd(s, k1))

\* the optional sign at k0
ParseSign(s, k0) ==
    ParseDigits(s, k0 <= Len(s) /\ s[k0] = "-",
                IF k0 <= Len(s) /\ s[k0] \in {"-", "+"} THEN k0 + 1 ELSE k0)

\* variant: the whole string has to be a number (as Number(s) would have it)
parseFloat_WholeString(s) ==
    IF FractionEnd(s, DigitsEnd(s, 1)) = Len(s) + 1
    THEN ParseSign(s, 1)
    ELSE [nan |-> TRUE, v |-> 0]

parseFloat(s) == ParseSign(s, SkipSpaces(s, 1))

(***************************************************************************)
(* getGeoDistance (haversine), in fixed point.                             *)
(*   coordinates : units of 1e-5 degree                                    *)
(*   angles      : units of 1/AngleScale radian                            *)
(*   cosines     : units of 1/CosScale                                     *)
(*   result      : metres (rounded down)                                   *)
(* The arithmetic stays within 32 bits for points within about 0.13 degree *)
(* of [0,0], which is where the model places its pets.                     *)
(***************************************************************************)
AngleScale == 20000000
CosScale == 10000
PiNum == 355
PiDen == 113
EarthRadiusKm == 6371

\* toRad = (x * Math.PI) / 180, x in 1e-5 degree:
\* x * 1e-5 * PI / 180 * AngleScale = x * PI * 10 / 9
toRad(x) == SDiv(x * (PiNum * 10), PiDen * 9)

\* Math.sin, Taylor series x - x^3/6
Sin(x) == x - SDiv(SDiv(x * x, AngleScale) * x, 6 * AngleScale)

\* 1 - x2/2 + x2^2/24 for x2 = x^2 in 1/CosScale
CosSeries(x2) == CosScale - SDiv(x2, 2) + SDiv(x2 * x2, 24 * CosScale)

Square(x) == x * x

\* Math.cos, Taylor series 1 - x^2/2 + x^4/24, result in 1/CosScale
Cos(x) == CosSeries(SDiv(Square(SDiv(x, AngleScale \div CosScale)), CosScale))

\* Math.sqrt on integers: the largest r in lo..hi with r*r <= n
RECURSIVE SqrtSearch(_, _, _)
SqrtSearch(n, lo, hi) ==
    IF lo >= hi THEN lo
    ELSE LET mid == (lo + hi + 1) \div 2
         IN  IF mid * mid <= n THEN SqrtSearch(n, mid, hi)
             ELSE SqrtSearch(n, lo, mid - 1)

Sqrt(n) == SqrtSearch(n, 0, 46340)

\* atan(t) = t - t^3/3
Atan(t) == t - SDiv(SDiv(t * t, AngleScale) * t, 3 * AngleScale)

\* Math.atan2(y, x) for y >= 0, x > 0: atan(y/x),
\* where x = AngleScale - e and y/x = y * (1 + e/AngleScale) to first order
Atan2(y, x) == Atan(y + (y * (AngleScale - x)) \div AngleScale)

\* array destructuring [lng, lat] of an argument of getGeoDistance:
\* an array gives its elements; a GeoJSON point object {type, coordinates}
\* is not iterable: a native (ES2015+) build throws a TypeError, a
\* down-levelled (ES5) build reads obj[0], obj[1] = undefined
Destructure(c) ==
    CASE c.kind = "array" -> [ok |-> TRUE, threw |-> FALSE, lng |-> c.v[1], lat |-> c.v[2]]
      [] c.kind = "point" /\ build = "es5" -> [ok |-> FALSE, threw |-> FALSE, lng |-> 0, lat |-> 0]
      [] OTHER -> [ok |-> FALSE, threw |-> TRUE, lng |-> 0, lat |-> 0]

\* c * v / CosScale without leaving 32 bits
MulScaled(c, v) == c * (v \div CosScale) + (c * (v % CosScale)) \div CosScale

\* a = sin(dLat/2)^2 + cos(lat1) * cos(lat2) * sin(dLng/2)^2
HaversineA(sLat, sLng, cc) == Square(sLat) + MulScaled(cc, Square(sLng))

\* 2 * atan2(sqrt(a), sqrt(1 - a)); sqrt(a) in 1/AngleScale,
\* sqrt(1 - a) = 1 - a/2 to first order
CentralAngle(a) == 2 * Atan2(Sqrt(a), AngleScale - a \div (2 * AngleScale))

Haversine(lng1, lat1, lng2, lat2) ==
    (EarthRadiusKm
       * CentralAngle(HaversineA(Sin(SDiv(toRad(lat2 - lat1), 2)),
                                 Sin(SDiv(toRad(lng2 - lng1), 2)),
                                 (Cos(toRad(lat1)) * Cos(toRad(lat2))) \div CosScale)))
    \div (AngleScale \div 1000)

\* variant: longitude and latitude of the second point are taken in the
\* wrong order
Between_SecondSwapped(p1, p2) ==
    IF p1.threw \/ p2.threw THEN TypeError
    ELSE IF ~p1.ok \/ ~p2.ok THEN NaN
    ELSE Haversine(p1.lng, p1.lat, p2.lat, p2.lng)

\* the distance between two destructured arguments
Between(p1, p2) ==
    IF p1.threw \/ p2.threw THEN TypeError
    ELSE IF ~p1.ok \/ ~p2.ok THEN NaN
    ELSE Haversine(p1.lng, p1.lat, p2.lng, p2.lat)

getGeoDistance(c1, c2) == Between(Destructure(c1), Destructure(c2))

\* a coordinate pair as a JavaScript array value
Arr(lng, lat) == [kind |-> "array", v |-> <<lng, lat>>]
\* location.coordinates of a stored document: the GeoJSON point object
Point(lng, lat) == [kind |-> "point", v |-> <<lng, lat>>]
\* location or location.coordinates not set
NoCoords == [kind |-> "undefined", v |-> <<0, 0>>]

\* x ?? [0, 0]
OrOrigin(c) == IF c.kind = "undefined" THEN Arr(0, 0) ELSE c

MetresPerKm == 1000

(***************************************************************************)
(* computeMatchScore                                                       *)
(***************************************************************************)
\* variant: a missing species is let through instead of blocking
SpeciesBlocked_MissingPasses(lostPet, foundPet) ==
    /\ Truthy(lostPet.species)
    /\ Truthy(foundPet.species)
    /\ toLowerCase(lostPet.species) # toLowerCase(foundPet.species)

SpeciesBlocked(lostPet, foundPet) ==
    \/ ~Truthy(lostPet.species)
    \/ ~Truthy(foundPet.species)
    \/ toLowerCase(lostPet.species) # toLowerCase(foundPet.species)

\* breedA === breedB: 4; one includes the other: 2
BreedScore(breedA, breedB) ==
    IF breedA = breedB THEN 4
    ELSE IF includes(breedA, breedB) \/ includes(breedB, breedA) THEN 2
    ELSE 0

BreedPoints(lostPet, foundPet) ==
    IF Truthy(lostPet.breed) /\ Truthy(foundPet.breed)
    THEN BreedScore(toLowerCase(lostPet.breed), toLowerCase(foundPet.breed))
    ELSE 0

FurPoints(lostPet, foundPet) ==
    IF /\ Truthy(lostPet.furColor)
       /\ Truthy(foundPet.furColor)
       /\ toLowerCase(lostPet.furColor) = toLowerCase(foundPet.furColor)
    THEN 3 ELSE 0

EyePoints(lostPet, foundPet) ==
    IF /\ Truthy(lostPet.eyeColor)
       /\ Truthy(foundPet.eyeColor)
       /\ toLowerCase(lostPet.eyeColor) = toLowerCase(foundPet.eyeColor)
    THEN 2 ELSE 0

\* variant: the comparison of the age difference is inverted
AgeClose_Inverted(a, b) == ~a.nan /\ ~b.nan /\ Abs(a.v - b.v) >= 10

\* !isNaN(a) && !isNaN(b) && Math.abs(a - b) <= 1, with a, b in tenths
AgeClose(a, b) == ~a.nan /\ ~b.nan /\ Abs(a.v - b.v) <= 10

AgePoints(lostPet, foundPet) ==
    IF /\ Truthy(lostPet.age)
       /\ Truthy(foundPet.age)
       /\ AgeClose(parseFloat(lostPet.age), parseFloat(foundPet.age))
    THEN 2 ELSE 0

\* the distance the scorer computes: getGeoDistance(l.location?.coordinates ?? [0,0], ...)
ScorerDistance(lostPet, foundPet) ==
    getGeoDistance(OrOrigin(lostPet.coordinates), OrOrigin(foundPet.coordinates))

\* variant: a pair exactly on the scoring radius gets no location points
LocationPoints_Strict(distance, maxScoreRadiusKm) ==
    IF distance # NaN /\ distance < maxScoreRadiusKm * MetresPerKm THEN 6 ELSE 0

\* distance <= maxScoreRadiusKm (a comparison with NaN is false)
LocationPoints(distance, maxScoreRadiusKm) ==
    IF distance # NaN /\ distance <= maxScoreRadiusKm * MetresPerKm THEN 6 ELSE 0

DefaultScoreRadiusKm == 3

\* the sum of the attribute scores, given the distance of the pair
ScoreAt(lostPet, foundPet, distance, maxScoreRadiusKm) ==
    IF distance = TypeError THEN TypeError
    ELSE BreedPoints(lostPet, foundPet)
         + FurPoints(lostPet, foundPet)
         + EyePoints(lostPet, foundPet)
         + AgePoints(lostPet, foundPet)
         + LocationPoints(distance, maxScoreRadiusKm)

computeMatchScore(lostPet, foundPet, maxScoreRadiusKm) ==
    IF SpeciesBlocked(lostPet, foundPet) THEN 0
    ELSE ScoreAt(lostPet, foundPet, ScorerDistance(lostPet, foundPet), maxScoreRadiusKm)

(***************************************************************************)
(* Scorer harness: computeMatchScore applied to PetLike arguments drawn    *)
(* from bounded sets; each action changes one attribute of one argument    *)
(* and applies the function again.                                         *)
(***************************************************************************)
sDog == <<"d", "o", "g">>
sDOG == <<"D", "O", "G">>
sCat == <<"c", "a", "t">>
sLab == <<"l", "a", "b">>
sLAB == <<"L", "A", "B">>
sLabR == <<"L", "a", "b", " ", "r">>
sPug == <<"p", "u", "g">>
sTan == <<"t", "a", "n">>
sTAN == <<"T", "A", "N">>
sRed == <<"r", "e", "d">>
sBlu == <<"b", "l", "u">>
sBLu == <<"B", "L", "u">>
sEmpty == << >>
sAge3 == <<"3">>
sAge4 == <<"4">>
sAge45 == <<"4", ".", "5">>
sAge3yr == <<"3", " ", "y", "r">>
sAgeOld == <<"o", "l", "d">>

\* latitudes (1e-5 degree) on the meridian of [0,0], by their distance from [0,0]:
\* 3000 m (on the scoring radius), 3001 m, 10000 m (on the search radius), 10001 m
Lat == [km3 |-> 2699, over3 |-> 2700, km10 |-> 8994, over10 |-> 8995]

PetLike(species, breed, age, furColor, eyeColor, coordinates) ==
    [species |-> species, breed |-> breed, age |-> age, furColor |-> furColor,
     eyeColor |-> eyeColor, coordinates |-> coordinates]

Sides == {"lost", "found"}

SpeciesDom(side) ==
    IF side = "lost" THEN {Undefined, sDOG}
    ELSE {Undefined, sDog, sCat}
BreedDom(side) ==
    IF side = "lost" THEN {sLab}
    ELSE {Undefined, sLAB, sLabR, sPug}
FurDom(side) ==
    IF side = "lost" THEN {sTan}
    ELSE {sEmpty, sTAN, sRed}
EyeDom(side) ==
    IF side = "lost" THEN {sBlu}
    ELSE {Undefined, sBLu}
AgeDom(side) ==
    IF side = "lost" THEN {Undefined, sAge3}
    ELSE {Undefined, sAge3yr, sAge4, sAge45, sAgeOld}
CoordsDom(side) ==
    IF side = "lost" THEN {NoCoords, Arr(0, 0)}
    ELSE {NoCoords, Arr(0, Lat.km3), Arr(0, Lat.over3)}

\* The attributes of a pair as the specification words them: an attribute is
\* present when it is set and not empty; two strings match when they are equal
\* ignoring case.
Present(x) == x # Undefined /\ x # sEmpty

SameIgnoringCase(x, y) ==
    /\ Len(x) = Len(y)
    /\ \A k \in 1..Len(x) : LowerChar(x[k]) = LowerChar(y[k])

\* x occurs in y, ignoring case
WithinIgnoringCase(x, y) ==
    \E off \in 0..(Len(y) - Len(x)) :
        SameIgnoringCase(x, [k \in 1..Len(x) |-> y[off + k]])

SpeciesLevel(l, f) ==
    IF Present(l.species) /\ Present(f.species) /\ SameIgnoringCase(l.species, f.species)
    THEN 1 ELSE 0

\* 2 exact, 1 one breed within the other, 0 no match
BreedLevel(l, f) ==
    IF ~(Present(l.breed) /\ Present(f.breed)) THEN 0
    ELSE IF SameIgnoringCase(l.breed, f.breed) THEN 2
    ELSE IF WithinIgnoringCase(l.breed, f.breed) \/ WithinIgnoringCase(f.breed, l.breed) THEN 1
    ELSE 0

FurLevel(l, f) ==
    IF Present(l.furColor) /\ Present(f.furColor) /\ SameIgnoringCase(l.furColor, f.furColor)
    THEN 1 ELSE 0

EyeLevel(l, f) ==
    IF Present(l.eyeColor) /\ Present(f.eyeColor) /\ SameIgnoringCase(l.eyeColor, f.eyeColor)
    THEN 1 ELSE 0

\* the age strings of the harness and the number (in tenths of a year) each
\* one stands for; Unparseable for the others
Unparseable == [nan |-> TRUE, v |-> 0]
AgeOf(x) ==
    CASE x = sAge3   -> [nan |-> FALSE, v |-> 30]
      [] x = sAge3yr -> [nan |-> FALSE, v |-> 30]
      [] x = sAge4   -> [nan |-> FALSE, v |-> 40]
      [] x = sAge45  -> [nan |-> FALSE, v |-> 45]
      [] OTHER       -> Unparseable

AgesClose(a, b) == ~a.nan /\ ~b.nan /\ a.v - b.v \in -10..10

AgeLevel(l, f) == IF AgesClose(AgeOf(l.age), AgeOf(f.age)) THEN 1 ELSE 0

\* metres between the two records, [0,0] standing for missing coordinates
PlaceOf(x) == IF x.coordinates = NoCoords THEN <<0, 0>> ELSE x.coordinates.v

MetresBetween(a, b) == Haversine(a[1], a[2], b[1], b[2])

MetresApart(l, f) == MetresBetween(PlaceOf(l), PlaceOf(f))

LocationLevel(l, f) == IF MetresApart(l, f) <= 3000 THEN 1 ELSE 0

Levels(l, f) ==
    <<SpeciesLevel(l, f), BreedLevel(l, f), FurLevel(l, f), EyeLevel(l, f),
      AgeLevel(l, f), LocationLevel(l, f)>>

Attributes == {"species", "breed", "furColor", "eyeColor", "age", "coordinates"}

\* how well attribute k of the two records matches
LevelOf(k, l, f) ==
    CASE k = "species"  -> SpeciesLevel(l, f)
      [] k = "breed"    -> BreedLevel(l, f)
      [] k = "furColor" -> FurLevel(l, f)
      [] k = "eyeColor" -> EyeLevel(l, f)
      [] k = "age"      -> AgeLevel(l, f)
      [] OTHER          -> LocationLevel(l, f)

\* (l2, f2) differs from (l1, f1) in exactly one attribute, and that attribute
\* matches better in (l2, f2)
ImprovesOne(l1, f1, l2, f2) ==
    \E k \in Attributes :
        /\ \A m \in Attributes \ {k} : l1[m] = l2[m] /\ f1[m] = f2[m]
        /\ LevelOf(k, l2, f2) > LevelOf(k, l1, f1)

PetLikeDom(side) ==
    { PetLike(sp, br, ag, fu, ey, co) :
        sp \in SpeciesDom(side), br \in BreedDom(side), ag \in AgeDom(side),
        fu \in FurDom(side), ey \in EyeDom(side), co \in CoordsDom(side) }

Arg(side) == IF side = "lost" THEN argLost ELSE argFound

\* the call computeMatchScore(lostPet, foundPet) with the default radius
Apply(l, f) ==
    /\ argLost' = l
    /\ argFound' = f
    /\ score' = computeMatchScore(l, f, DefaultScoreRadiusKm)
    /\ last' = [score |-> score, improved |-> ImprovesOne(argLost, argFound, l, f)]
    /\ UNCHANGED geo

WithField(side, changed) ==
    IF side = "lost" THEN Apply(changed, argFound) ELSE Apply(argLost, changed)

ScoreSetSpecies ==
    \E side \in Sides : \E x \in SpeciesDom(side) :
        /\ x # Arg(side).species
        /\ WithField(side, [Arg(side) EXCEPT !.species = x])
        /\ UNCHANGED storeVars

ScoreSetBreed ==
    \E side \in Sides : \E x \in BreedDom(side) :
        /\ x # Arg(side).breed
        /\ WithField(side, [Arg(side) EXCEPT !.breed = x])
        /\ UNCHANGED storeVars

ScoreSetFurColor ==
    \E side \in Sides : \E x \in FurDom(side) :
        /\ x # Arg(side).furColor
        /\ WithField(side, [Arg(side) EXCEPT !.furColor = x])
        /\ UNCHANGED storeVars

ScoreSetEyeColor ==
    \E side \in Sides : \E x \in EyeDom(side) :
        /\ x # Arg(side).eyeColor
        /\ WithField(side, [Arg(side) EXCEPT !.eyeColor = x])
        /\ UNCHANGED storeVars

ScoreSetAge ==
    \E side \in Sides : \E x \in AgeDom(side) :
        /\ x # Arg(side).age
        /\ WithField(side, [Arg(side) EXCEPT !.age = x])
        /\ UNCHANGED storeVars

ScoreSetCoordinates ==
    \E side \in Sides : \E x \in CoordsDom(side) :
        /\ x # Arg(side).coordinates
        /\ WithField(side, [Arg(side) EXCEPT !.coordinates = x])
        /\ UNCHANGED storeVars

(***************************************************************************)
(* Distance harness: getGeoDistance applied to two points, in both orders, *)
(* and to the first point and itself.                                      *)
(***************************************************************************)
GeoLngs == {-8995, 0, 150, 8994}
GeoLats == {-2699, 0, 100, 8995}

GeoDom == { Arr(lng, lat) : lng \in GeoLngs, lat \in GeoLats }

Measure(a, b) ==
    [a |-> a, b |-> b, ab |-> getGeoDistance(a, b), ba |-> getGeoDistance(b, a),
     aa |-> getGeoDistance(a, a)]

GeoIdle == [a |-> Arr(0, 0), b |-> Arr(0, 0), ab |-> 0, ba |-> 0, aa |-> 0]

GeoSetA ==
    \E a \in GeoDom :
        /\ a # geo.a
        /\ geo' = Measure(a, geo.b)
        /\ UNCHANGED <<storeVars, argLost, argFound, score, last>>

GeoSetB ==
    \E b \in GeoDom :
        /\ b # geo.b
        /\ geo' = Measure(geo.a, b)
        /\ UNCHANGED <<storeVars, argLost, argFound, score, last>>

(***************************************************************************)
(* The Pet collection                                                      *)
(***************************************************************************)
MaxTicks == 2
MaxOps == 1

PetIds == {1, 2, 3}
Users == {1, 2}
UnknownPetId == 0
NoMatchedPetId == 0

\* a Pet document (models/Pet.ts); location is location.coordinates, which the
\* schema defaults to the GeoJSON point {type: "Point", coordinates: [0, 0]}
PetDoc(id, ownerId, p, isLost, isFound) ==
    [id |-> id, ownerId |-> ownerId, species |-> p.species, breed |-> p.breed,
     age |-> p.age, furColor |-> p.furColor, eyeColor |-> p.eyeColor,
     isLost |-> isLost, isFound |-> isFound,
     location |-> p.coordinates, matchResults |-> << >>]

\* attribute sets of the stored pets; scores are those of a pair (ProfileA, x)
\* as the scanner computes them
ProfileA == PetLike(sDog, sLab, sAge3, sTan, sBlu, Point(0, 0))
\* breed 4 + fur 3 = 7, exactly 10 km from ProfileA
ProfileB == PetLike(sDOG, sLAB, sAgeOld, sTAN, Undefined, Point(0, Lat.km10))
\* breed 2 + eye 2 + age 2 = 6, 3 km from ProfileA
ProfileC == PetLike(sDog, sLabR, sAge4, sRed, sBlu, Point(0, Lat.km3))
\* another species, otherwise ProfileA
ProfileD == PetLike(sCat, sLab, sAge3, sTan, sBlu, Point(0, 0))
\* ProfileA, just over 10 km away
ProfileE == PetLike(sDog, sLab, sAge3, sTan, sBlu, Point(0, Lat.over10))

OwnerOf(id) == IF id = 1 THEN 1 ELSE 2

\* Document.toObject() as PetLike: location.coordinates is the GeoJSON object
toObject(doc) ==
    PetLike(doc.species, doc.breed, doc.age, doc.furColor, doc.eyeColor, doc.location)

\* Pet.findById
findById(store, id) == IF id \in DOMAIN store THEN {store[id]} ELSE {}

\* the natural order of the collection
IdSeq == <<1, 2, 3>>

\* Pet.find({ isLost, isFound }): the matching documents in collection order
findOrdered(seq, store, isLost, isFound) ==
    LET ids == SelectSeq(seq, LAMBDA id :
                   store[id].isLost = isLost /\ store[id].isFound = isFound)
    IN  [k \in 1..Len(ids) |-> store[ids[k]]]

find(store, isLost, isFound) == findOrdered(order, store, isLost, isFound)

Now == tick.n

\* no tick yet; the process is up and the cron task scheduled
NoTick ==
    [n |-> 0, finished |-> 0, outcome |-> "none", notify |-> "none",
     logged |-> FALSE, process |-> "up"]

IdleScan == [pc |-> "idle", lostPets |-> << >>, foundPets |-> << >>, i |-> 1, j |-> 1]

\* no overlapping invocation is running; finished counts those that have ended
IdleSecond ==
    [pc |-> "idle", lostPets |-> << >>, foundPets |-> << >>, i |-> 1, j |-> 1,
     finished |-> 0]

(***************************************************************************)
(* scanForLostFoundMatches                                                 *)
(***************************************************************************)
MATCH_THRESHOLD == 7
MAX_SEARCH_RADIUS_KM == 10

\* doc.location?.coordinates?.coordinates ?? [0, 0], then [c[0], c[1]]
ScannerCoords(doc) ==
    IF doc.location.kind = "undefined" THEN Arr(0, 0)
    ELSE Arr(doc.location.v[1], doc.location.v[2])

\* variant: a pair exactly on the search radius is skipped too
TooFar_Inclusive(distance) == distance # NaN /\ distance >= MAX_SEARCH_RADIUS_KM * MetresPerKm

\* if (distance > MAX_SEARCH_RADIUS_KM) continue;
TooFar(distance) == distance # NaN /\ distance > MAX_SEARCH_RADIUS_KM * MetresPerKm

\* variant: a score equal to the threshold does not qualify
Qualifies_Strict(sc) == sc > MATCH_THRESHOLD

\* if (score >= MATCH_THRESHOLD)
Qualifies(sc) == sc >= MATCH_THRESHOLD

\* variant: a lost pet that has any entry counts as matched with every found pet
alreadyMatched_AnyEntry(matchResults, foundId) == matchResults # << >>

\* lostPet.matchResults.some(m => m.petId?.toString() === foundPet._id?.toString())
alreadyMatched(matchResults, foundId) ==
    \E k \in 1..Len(matchResults) : matchResults[k].petId = foundId

\* variant: the push is followed by a save of the document, which appends
\* the new entry to the stored list
PushEntry_Saved(r, li, entry) ==
    [r EXCEPT !.lostPets[li].matchResults = Append(@, entry),
              !.store[r.lostPets[li].id].matchResults = Append(@, entry)]

\* lines 46-50: lostPet.matchResults.push({ petId, score, matchedAt })
PushEntry(r, li, entry) ==
    [r EXCEPT !.lostPets[li].matchResults = Append(@, entry)]

\* variant: every qualifying pair is appended and written to the store,
\* without looking at the entries already there
PushMatch_SavedUnchecked(r, li, foundPet, sc) ==
    LET entry == [petId |-> foundPet.id, score |-> sc, matchedAt |-> Now]
    IN  [r EXCEPT !.lostPets[li].matchResults = Append(@, entry),
                  !.store[r.lostPets[li].id].matchResults = Append(@, entry)]

\* lines 40-51: the entry is pushed on the in-memory document of the lost pet;
\* the document is never saved, the store r.store is left as it is
PushMatch(r, li, foundPet, sc) ==
    IF alreadyMatched(r.lostPets[li].matchResults, foundPet.id) THEN r
    ELSE PushEntry(r, li, [petId |-> foundPet.id, score |-> sc, matchedAt |-> Now])

\* lines 54-59: await sendNotification({ userId, title, message, matchPetId })
RequestNotification(r, lostPet, foundPet) ==
    [r EXCEPT !.requests =
        Append(@, [userId |-> lostPet.ownerId, matchPetId |-> foundPet.id,
                   lost |-> lostPet.id, tick |-> tick.n,
                   revLost |-> hist.rev[lostPet.id],
                   revFound |-> hist.rev[foundPet.id]])]

\* the pair (lostPet, foundPet) has been taken up and its distance computed
Visited(r, lostPet, foundPet, distance) ==
    [r EXCEPT !.j = @ + 1,
              !.visited = @ \cup {[lost |-> lostPet.id, found |-> foundPet.id,
                                   distance |-> distance]}]

\* variant: a qualifying pair also takes the found pet out of the open
\* candidates in the store
Matched_ClosesFound(r, li, foundPet, sc) ==
    IF sc # TypeError /\ Qualifies(sc)
    THEN [PushMatch(r, li, foundPet, sc) EXCEPT !.store[foundPet.id].isFound = FALSE]
    ELSE r

\* lines 34-51: a qualifying score puts the pair on the lost pet's list
Matched(r, li, foundPet, sc) ==
    IF sc # TypeError /\ Qualifies(sc) THEN PushMatch(r, li, foundPet, sc) ELSE r

\* history: the pair was scored, and what became of the lost pet's in-memory
\* match list
Scored(r, li, lostPet, foundPet, sc) ==
    [r EXCEPT !.scored = @ \cup
        {[lost |-> lostPet.id, found |-> foundPet.id, score |-> sc,
          pushed |-> Len(r.lostPets[li].matchResults) > Len(lostPet.matchResults),
          listed |-> alreadyMatched(r.lostPets[li].matchResults, foundPet.id)]}]

\* the two nested loops from pair (r.i, r.j) on, up to the next await, the end
\* of the loops or an exception
RECURSIVE RunLoop(_)

\* after the score: an exception ends the scan, a qualifying score awaits the
\* notification, any other goes on with the next pair
AfterScore(r, lostPet, foundPet, sc) ==
    IF sc = TypeError THEN [r EXCEPT !.pc = "threw"]
    ELSE IF Qualifies(sc)
    THEN [RequestNotification(r, lostPet, foundPet) EXCEPT !.pc = "notify"]
    ELSE RunLoop(r)

\* lines 29-60 for one pair and its score
ScorePair(r, li, lostPet, foundPet, sc) ==
    AfterScore(Scored(Matched(r, li, foundPet, sc), li, lostPet, foundPet, sc),
               lostPet, foundPet, sc)

\* lines 27-32: the coarse filter, then the scorer on the two documents
FilterPair(r, li, lostPet, foundPet, distance) ==
    IF TooFar(distance) THEN RunLoop(r)
    ELSE ScorePair(r, li, lostPet, foundPet,
                   computeMatchScore(toObject(lostPet), toObject(foundPet),
                                     DefaultScoreRadiusKm))

MeasuredPair(r, lostPet, foundPet, distance) ==
    FilterPair(Visited(r, lostPet, foundPet, distance), r.i, lostPet, foundPet, distance)

\* lines 19-25: the distance between the coordinate arrays of the pair
VisitPair(r, lostPet, foundPet) ==
    MeasuredPair(r, lostPet, foundPet,
                 getGeoDistance(ScannerCoords(lostPet), ScannerCoords(foundPet)))

RunLoop(r) ==
    IF r.i > Len(r.lostPets) THEN [r EXCEPT !.pc = "done"]
    ELSE IF r.j > Len(r.foundPets) THEN RunLoop([r EXCEPT !.i = @ + 1, !.j = 1])
    ELSE VisitPair(r, r.lostPets[r.i], r.foundPets[r.j])

Lists(store) == [id \in PetIds |-> store[id].matchResults]

\* the run state the loop works on, from the variables
RunState(lostPets, foundPets, i, j) ==
    [lostPets |-> lostPets, foundPets |-> foundPets, i |-> i, j |-> j,
     store |-> pets, requests |-> requests, scored |-> scored,
     visited |-> visited, pc |-> "run"]

\* sendNotification (utils/sendNotification.ts): what happens inside it
\*   "sent"      the message went out
\*   "noUser"    User.findById found nobody
\*   "noToken"   the user has no fcmToken
\*   "sendError" admin.messaging().send rejected
NotifyOutcomes == {"sent", "noUser", "noToken", "sendError"}

\* what the tick record keeps of the last notification while the scan runs:
\* delivered or not
Delivery(outcome) == IF outcome = "sent" THEN "sent" ELSE "failed"

\* variant: the catch block passes the error on
sendNotification_Rethrows(outcome) ==
    IF outcome = "sendError" THEN "threw" ELSE "returned"

\* try { ... if (!user || !user.fcmToken) { warn; return; } ... send ... }
\* catch (err) { console.error(...) }: the promise resolves in every case
sendNotification(outcome) ==
    CASE outcome \in {"noUser", "noToken"} -> "returned"
      [] outcome = "sendError" -> "returned"
      [] OTHER -> "returned"

\* The promise of the cron task rejected. scanForLostFoundMatches and the
\* cron callback hold no try/catch and log no failure; what becomes of the
\* rejection is up to the version of the scheduler library and of the runtime:
\*   "swallowed"  the library drops it: nothing is logged, the schedule goes on
\*   "reported"   the library catches and prints it, the schedule goes on
\*   "unhandled"  an unhandled rejection: the runtime prints it and ends the process
RejectionOutcomes == {"swallowed", "reported", "unhandled"}

\* outcomes of a tick with which the promise of the cron task rejects: an
\* exception in the loops, a rejected Pet.find
Rejected(outcome) == outcome \in {"threw", "storeError"}

\* a tick has ended with the given outcome; t is the tick record it ends from
EndTick(t, outcome, rejection, store) ==
    /\ scan' = IdleScan
    /\ tick' = [t EXCEPT !.outcome = outcome,
                         !.finished = @ + 1,
                         !.notify = "none",
                         !.logged = (Rejected(outcome) /\ rejection # "swallowed"),
                         !.process = IF Rejected(outcome) /\ rejection = "unhandled"
                                     THEN "down" ELSE @]
    /\ hist' = [hist EXCEPT !.endPrev = hist.endLast,
                            !.endLast = Lists(store),
                            !.succ = (tick.finished >= 1 /\ hist.cleanSinceEnd),
                            !.cleanSinceEnd = TRUE]

\* the variables after the loop has run up to its next await or its end
Resume(r, t, rejection) ==
    /\ pets' = r.store
    /\ requests' = r.requests
    /\ scored' = r.scored
    /\ visited' = r.visited
    /\ IF r.pc = "notify"
       THEN /\ scan' = [pc |-> "notify", lostPets |-> r.lostPets,
                        foundPets |-> r.foundPets, i |-> r.i, j |-> r.j]
            /\ tick' = t
            /\ UNCHANGED hist
       ELSE EndTick(t, IF r.pc = "done" THEN "completed" ELSE "threw", rejection, r.store)

\* cron fires: const lostPets = await Pet.find({ isLost: true, isFound: false })
ScanFindLost ==
    /\ scan.pc = "idle"
    /\ tick.process = "up"
    /\ tick.n < MaxTicks
    /\ scored' = {}
    /\ visited' = {}
    /\ scan' = [scan EXCEPT !.pc = "findFound", !.lostPets = find(pets, TRUE, FALSE)]
    /\ tick' = [tick EXCEPT !.n = @ + 1, !.outcome = "running",
                            !.notify = "none", !.logged = FALSE]
    /\ hist' = [hist EXCEPT !.dirty = FALSE]
    /\ UNCHANGED <<build, pets, requests, lastOp, budget>>
    /\ UNCHANGED scoreVars
    /\ UNCHANGED <<second, reports, order>>

\* cron fires and the first Pet.find rejects (a read failure of the store)
ScanFindLostRejects ==
    \E rejection \in RejectionOutcomes :
        /\ scan.pc = "idle"
        /\ tick.process = "up"
        /\ tick.n < MaxTicks
        /\ scored' = {}
        /\ visited' = {}
        /\ EndTick([tick EXCEPT !.n = @ + 1], "storeError", rejection, pets)
        /\ UNCHANGED <<build, pets, requests, lastOp, budget>>
        /\ UNCHANGED scoreVars
        /\ UNCHANGED <<second, reports, order>>

\* const foundPets = await Pet.find({ isLost: false, isFound: true }), then the loops
ScanFindFound ==
    /\ scan.pc = "findFound"
    /\ \E r \in {RunLoop(RunState(scan.lostPets, find(pets, FALSE, TRUE), 1, 1))} :
          \E rejection \in RejectionOutcomes :
              /\ r.pc # "threw" => rejection = "swallowed"
              /\ Resume(r, tick, rejection)
    /\ UNCHANGED <<build, lastOp, budget>>
    /\ UNCHANGED scoreVars
    /\ UNCHANGED <<second, reports, order>>

\* the second Pet.find rejects
ScanFindFoundRejects ==
    \E rejection \in RejectionOutcomes :
        /\ scan.pc = "findFound"
        /\ EndTick(tick, "storeError", rejection, pets)
        /\ UNCHANGED <<build, pets, requests, scored, visited, lastOp, budget>>
        /\ UNCHANGED scoreVars
        /\ UNCHANGED <<second, reports, order>>

\* await sendNotification(...) has settled: the loops go on, or the rejection
\* leaves the scan
ScanNotified ==
    /\ scan.pc = "notify"
    /\ \E outcome \in NotifyOutcomes :
          IF sendNotification(outcome) = "returned"
          THEN \E r \in {RunLoop(RunState(scan.lostPets, scan.foundPets, scan.i, scan.j))} :
                  \E rejection \in RejectionOutcomes :
                      /\ r.pc # "threw" => rejection = "swallowed"
                      /\ Resume(r, [tick EXCEPT !.notify = Delivery(outcome)], rejection)
          ELSE \E rejection \in RejectionOutcomes :
                  /\ EndTick([tick EXCEPT !.notify = Delivery(outcome)], "threw",
                             rejection, pets)
                  /\ UNCHANGED <<pets, requests, scored, visited>>
    /\ UNCHANGED <<build, lastOp, budget>>
    /\ UNCHANGED scoreVars
    /\ UNCHANGED <<second, reports, order>>

\* the process is killed while the scan awaits sendNotification: the running
\* invocation and its in-memory documents are gone
ScanCrash ==
    /\ scan.pc = "notify"
    /\ scan' = IdleScan
    /\ tick' = [tick EXCEPT !.outcome = "crashed", !.finished = @ + 1, !.notify = "none",
                            !.process = "down"]
    /\ hist' = [hist EXCEPT !.endPrev = hist.endLast,
                            !.endLast = Lists(pets),
                            !.succ = (tick.finished >= 1 /\ hist.cleanSinceEnd),
                            !.cleanSinceEnd = TRUE]
    /\ UNCHANGED <<build, pets, requests, scored, visited, lastOp, budget>>
    /\ UNCHANGED scoreVars
    /\ UNCHANGED <<second, reports, order>>

\* the process is started again (server.ts; the import of jobs/matchScanner
\* schedules the cron task anew): no tick has ended in the new process
Restart ==
    /\ tick.process = "down"
    /\ tick' = [tick EXCEPT !.process = "up", !.outcome = "none", !.logged = FALSE]
    /\ second' = [IdleSecond EXCEPT !.finished = second.finished]
    /\ UNCHANGED <<build, pets, scan, requests, scored, visited, hist, lastOp, budget>>
    /\ UNCHANGED scoreVars
    /\ UNCHANGED <<reports, order>>

\* the process has ended on an unhandled rejection of an overlapping
\* invocation: every invocation is gone
OverlapDown ==
    /\ scan' = IdleScan
    /\ second' = [IdleSecond EXCEPT !.finished = second.finished + 1]
    /\ tick' = [tick EXCEPT !.outcome = "threw", !.finished = @ + 1, !.notify = "none",
                            !.logged = TRUE, !.process = "down"]

\* the variables after the loops of the overlapping invocation have run up to
\* their next await or their end
ResumeSecond(r, rejection) ==
    /\ pets' = r.store
    /\ requests' = r.requests
    /\ scored' = r.scored
    /\ visited' = r.visited
    /\ IF r.pc = "notify"
       THEN /\ second' = [pc |-> "notify", lostPets |-> r.lostPets,
                          foundPets |-> r.foundPets, i |-> r.i, j |-> r.j,
                          finished |-> second.finished]
            /\ UNCHANGED <<scan, tick>>
       ELSE IF r.pc = "threw" /\ rejection = "unhandled"
       THEN OverlapDown
       ELSE /\ second' = [IdleSecond EXCEPT !.finished = second.finished + 1]
            /\ UNCHANGED <<scan, tick>>

\* cron fires again while the invocation of the previous hour is still running
SecondFindLost ==
    /\ scan.pc # "idle"
    /\ second.pc = "idle"
    /\ tick.process = "up"
    /\ tick.n < MaxTicks
    /\ second' = [second EXCEPT !.pc = "findFound", !.lostPets = find(pets, TRUE, FALSE)]
    /\ tick' = [tick EXCEPT !.n = @ + 1]
    /\ UNCHANGED <<build, pets, scan, requests, scored, visited, hist, lastOp, budget>>
    /\ UNCHANGED scoreVars
    /\ UNCHANGED <<reports, order>>

SecondFindFound ==
    /\ second.pc = "findFound"
    /\ tick.process = "up"
    /\ \E r \in {RunLoop(RunState(second.lostPets, find(pets, FALSE, TRUE), 1, 1))} :
          \E rejection \in RejectionOutcomes :
              /\ r.pc # "threw" => rejection = "swallowed"
              /\ ResumeSecond(r, rejection)
    /\ UNCHANGED <<build, hist, lastOp, budget>>
    /\ UNCHANGED scoreVars
    /\ UNCHANGED <<reports, order>>

SecondNotified ==
    /\ second.pc = "notify"
    /\ tick.process = "up"
    /\ \E outcome \in NotifyOutcomes :
          /\ sendNotification(outcome) = "returned"
          /\ \E r \in {RunLoop(RunState(second.lostPets, second.foundPets,
                                         second.i, second.j))} :
                \E rejection \in RejectionOutcomes :
                    /\ r.pc # "threw" => rejection = "swallowed"
                    /\ ResumeSecond(r, rejection)
    /\ UNCHANGED <<build, hist, lastOp, budget>>
    /\ UNCHANGED scoreVars
    /\ UNCHANGED <<reports, order>>

(***************************************************************************)
(* routes/petRoutes.ts                                                     *)
(***************************************************************************)
\* the fields of allowedUpdates that the model's documents carry
allowedUpdates ==
    {"species", "breed", "age", "furColor", "eyeColor", "isLost", "isFound", "matchResults"}

\* mongoose casts an assigned matchResults array to sub-documents:
\* matchedAt defaults to Date.now
CastMatchResults(list) ==
    [k \in 1..Len(list) |->
        [petId |-> list[k].petId, score |-> list[k].score, matchedAt |-> Now]]

CastField(field, value) ==
    IF field = "matchResults" THEN CastMatchResults(value) ELSE value

\* allowedUpdates.forEach(field => { if (req.body[field] !== undefined) pet[field] = req.body[field] })
\* if (req.body.lat && req.body.lng) pet.location = { ..., coordinates: [lng, lat] }
ApplyUpdates(pet, body) ==
    LET assigned == [f \in DOMAIN pet |->
                        IF f \in allowedUpdates /\ f \in DOMAIN body
                        THEN CastField(f, body[f]) ELSE pet[f]]
    IN  IF /\ "lat" \in DOMAIN body /\ "lng" \in DOMAIN body
           /\ body.lat # 0 /\ body.lng # 0
        THEN [assigned EXCEPT !.location = Point(body.lng, body.lat)]
        ELSE assigned

\* request bodies of PUT /pets/:id
PutBodies ==
    { [isLost |-> TRUE, isFound |-> FALSE],
      [isLost |-> FALSE, isFound |-> TRUE],
      [matchResults |-> <<[petId |-> 3, score |-> 7], [petId |-> 3, score |-> 7]>>],
      [isLost |-> TRUE, matchResults |-> <<[petId |-> 3, score |-> 7], [petId |-> 2, score |-> 9]>>],
      [eyeColor |-> sBLu, lat |-> 100, lng |-> 150] }

\* history: a store write by an HTTP handler to the pets in ids
Wrote(ids) ==
    hist' = [hist EXCEPT !.rev = [id \in PetIds |-> IF id \in ids THEN @[id] + 1 ELSE @[id]],
                         !.dirty = TRUE,
                         !.succ = FALSE,
                         !.cleanSinceEnd = FALSE]

\* no request body / no matches array in the response
NoPayload == << >>
NoMatches == << >>

\* no request handled yet
NoUser == 0

\* what the guards of confirm-match look at in a request: whether the body
\* has a matchedPetId, whether the pet exists, whether the caller owns it
ConfirmRequest(store, user, id, matchedPetId) ==
    [given |-> matchedPetId # NoMatchedPetId,
     known |-> findById(store, id) # {},
     owner |-> findById(store, id) # {} /\ store[id].ownerId = user]
NoRequest == [given |-> FALSE, known |-> FALSE, owner |-> FALSE]

NoOp ==
    [op |-> "none", status |-> 0, id |-> UnknownPetId, matchedPetId |-> NoMatchedPetId,
     wasLost |-> FALSE, payload |-> NoPayload, matches |-> NoMatches,
     user |-> NoUser, handler |-> "none", req |-> NoRequest]

\* the response of a request about one pet; the record names the pets of a
\* request that was carried out, and whether a confirmed pet was lost and not
\* found when the confirmation came in
Response(op, status, id, matchedPetId) ==
    [op |-> op, status |-> status,
     id |-> IF status = 200 THEN id ELSE UnknownPetId,
     matchedPetId |-> IF status = 200 THEN matchedPetId ELSE NoMatchedPetId,
     wasLost |-> /\ status = 200
                 /\ op = "confirm"
                 /\ pets[id].isLost
                 /\ ~pets[id].isFound,
     payload |-> NoPayload, matches |-> NoMatches,
     user |-> NoUser, handler |-> "none", req |-> NoRequest]

Respond(op, status, id, matchedPetId) == lastOp' = Response(op, status, id, matchedPetId)

\* router.put("/:id")
PutPet ==
    \E user \in Users, id \in PetIds \cup {UnknownPetId} :
        /\ tick.process = "up"
        /\ budget > 0
        /\ budget' = budget - 1
        /\ IF findById(pets, id) = {}
           THEN /\ Respond("put", 404, id, NoMatchedPetId)
                /\ UNCHANGED <<pets, hist>>
           ELSE IF pets[id].ownerId # user
           THEN /\ Respond("put", 403, id, NoMatchedPetId)
                /\ UNCHANGED <<pets, hist>>
           ELSE \E body \in PutBodies :
                /\ pets' = [pets EXCEPT ![id] = ApplyUpdates(@, body)]
                /\ Wrote({id})
                /\ Respond("put", 200, id, NoMatchedPetId)
        /\ UNCHANGED <<build, scan, requests, scored, visited, tick>>
        /\ UNCHANGED scoreVars
        /\ UNCHANGED <<second, reports, order>>

\* variant: the $pull condition names a field no entry has, so nothing is pulled
PullMatches_WrongField(matchResults, matchedPetId) == matchResults

\* $pull: { matchResults: { petId: matchedPetId } }
PullMatches(matchResults, matchedPetId) ==
    SelectSeq(matchResults, LAMBDA m : m.petId # matchedPetId)

\* variant: the update empties the list of every other pet that holds the candidate
PurgeCandidate_ClearsLists(store, petId, matchedPetId) ==
    [id \in DOMAIN store |->
        IF id # petId /\ alreadyMatched(store[id].matchResults, matchedPetId)
        THEN [store[id] EXCEPT !.matchResults = << >>]
        ELSE store[id]]

\* Pet.updateMany({ _id: { $ne: pet._id }, "matchResults.petId": matchedPetId }, { $pull: ... })
PurgeCandidate(store, petId, matchedPetId) ==
    [id \in DOMAIN store |->
        IF id # petId /\ alreadyMatched(store[id].matchResults, matchedPetId)
        THEN [store[id] EXCEPT !.matchResults = PullMatches(@, matchedPetId)]
        ELSE store[id]]

\* pet.isLost = false; pet.isFound = false; pet.set("matchResults", []); await pet.save()
ResetLostPet(pet) ==
    [pet EXCEPT !.isLost = FALSE, !.isFound = FALSE, !.matchResults = << >>]

\* variant: the caller's ownership of the pet is not checked
ConfirmStatus_OwnerUnchecked(store, user, id, matchedPetId) ==
    IF matchedPetId = NoMatchedPetId THEN 400
    ELSE IF findById(store, id) = {} THEN 404
    ELSE 200

\* lines 623-633: the guards of confirm-match, in their order
ConfirmStatus(store, user, id, matchedPetId) ==
    IF matchedPetId = NoMatchedPetId THEN 400
    ELSE IF findById(store, id) = {} THEN 404
    ELSE IF store[id].ownerId # user THEN 403
    ELSE 200

\* router.post("/:id/confirm-match")
ConfirmMatch ==
    \E user \in Users, id \in PetIds \cup {UnknownPetId},
       matchedPetId \in PetIds \cup {NoMatchedPetId} :
        /\ tick.process = "up"
        /\ budget > 0
        /\ budget' = budget - 1
        /\ \E status \in {ConfirmStatus(pets, user, id, matchedPetId)} :
              /\ lastOp' = [Response("confirm", status, id, matchedPetId)
                              EXCEPT !.req = ConfirmRequest(pets, user, id, matchedPetId)]
              /\ IF status # 200
                 THEN UNCHANGED <<pets, hist>>
                 ELSE /\ pets' = PurgeCandidate([pets EXCEPT ![id] = ResetLostPet(@)],
                                                id, matchedPetId)
                      /\ Wrote({id} \cup {o \in PetIds :
                                  alreadyMatched(pets[o].matchResults, matchedPetId)})
        /\ UNCHANGED <<build, scan, requests, scored, visited, tick>>
        /\ UNCHANGED scoreVars
        /\ UNCHANGED <<second, reports, order>>

\* request bodies of POST /pets/match: a found pet like pet 1 (same species,
\* breed, fur, age, coordinates given as an array), one of another species,
\* one without species
MatchPayloads ==
    { PetLike(sDOG, sLAB, sAge3yr, sTAN, Undefined, Arr(0, 0)),
      PetLike(sCat, sLab, sAge3, sTan, sBlu, Arr(0, 0)),
      PetLike(Undefined, sLab, sAge3, sTan, sBlu, Arr(0, 0)) }

\* const lostPet = entry._id as any: an ObjectId read as a PetLike has none
\* of the attributes
ObjectIdAsPetLike(id) ==
    PetLike(Undefined, Undefined, Undefined, Undefined, Undefined, NoCoords)

\* .map(entry => ({ lostPet: entry._id, lostEntry: entry, score }))
ScoreEntries(lostPets, foundPet) ==
    [k \in 1..Len(lostPets) |->
        [lostPet |-> lostPets[k].id,
         score |-> computeMatchScore(ObjectIdAsPetLike(lostPets[k].id), foundPet,
                                     DefaultScoreRadiusKm)]]

\* .filter(match => match.score >= 8)
MatchQueryThreshold == 8
FilterMatches(matches) ==
    SelectSeq(matches, LAMBDA m : m.score # TypeError /\ m.score >= MatchQueryThreshold)

\* Array.prototype.sort((a, b) => b.score - a.score): stable, descending
RECURSIVE InsertByScore(_, _)
InsertByScore(sorted, m) ==
    IF sorted = << >> THEN <<m>>
    ELSE IF Head(sorted).score >= m.score
         THEN <<Head(sorted)>> \o InsertByScore(Tail(sorted), m)
         ELSE <<m>> \o sorted

RECURSIVE SortMatches(_)
SortMatches(matches) ==
    IF matches = << >> THEN << >>
    ELSE InsertByScore(SortMatches(SubSeq(matches, 1, Len(matches) - 1)),
                       matches[Len(matches)])

\* router.post("/match")
PostMatch ==
    \E foundPet \in MatchPayloads :
        /\ tick.process = "up"
        /\ budget > 0
        /\ budget' = budget - 1
        /\ IF ~Truthy(foundPet.species) \/ foundPet.coordinates.kind = "undefined"
           THEN lastOp' = [NoOp EXCEPT !.op = "match", !.status = 400,
                                       !.payload = <<foundPet>>]
           ELSE lastOp' = [NoOp EXCEPT !.op = "match", !.status = 200,
                                       !.payload = <<foundPet>>,
                                       !.matches = SortMatches(FilterMatches(
                                           ScoreEntries(find(pets, TRUE, FALSE), foundPet)))]
        /\ UNCHANGED <<build, pets, scan, requests, scored, visited, tick, hist>>
        /\ UNCHANGED scoreVars
        /\ UNCHANGED <<second, reports, order>>

\* a segment of a route path: a literal, or a parameter such as :id
Literal(name) == [param |-> FALSE, name |-> name]
Param(name) == [param |-> TRUE, name |-> name]

\* the GET routes of the pets router in the order of their registration:
\* "/mine", "/", "/:id" and, after the export, "/matches"
GetRoutes ==
    << [path |-> <<Literal("mine")>>, handler |-> "mine"],
       [path |-> << >>, handler |-> "list"],
       [path |-> <<Param("id")>>, handler |-> "byId"],
       [path |-> <<Literal("matches")>>, handler |-> "matches"] >>

\* a route path matches a request path of the same length whose segments
\* equal its literals; a parameter matches any segment
PathMatches(pattern, path) ==
    /\ Len(pattern) = Len(path)
    /\ \A k \in 1..Len(pattern) : pattern[k].param \/ pattern[k].name = path[k]

\* the router runs the first registered route that matches the request
Dispatch(routes, path) ==
    LET hits == {k \in 1..Len(routes) : PathMatches(routes[k].path, path)}
    IN  IF hits = {} THEN "none"
        ELSE routes[CHOOSE k \in hits : \A h \in hits : k <= h].handler

\* the ids a request path can carry, and the cast of a segment to an ObjectId
IdSegments == {"0", "1", "2", "3"}
CastObjectId(seg) ==
    CASE seg = "1" -> 1 [] seg = "2" -> 2 [] seg = "3" -> 3 [] OTHER -> UnknownPetId

\* lines 677-685: the entries of the lost pets' lists, each with its pet
FlatMatches(lostPets) ==
    LET entries(pet) == [k \in 1..Len(pet.matchResults) |->
                            [petId |-> pet.id,
                             matchedPetId |-> pet.matchResults[k].petId,
                             score |-> pet.matchResults[k].score,
                             matchedAt |-> pet.matchResults[k].matchedAt]]
        RECURSIVE flat(_)
        flat(k) == IF k > Len(lostPets) THEN << >>
                   ELSE entries(lostPets[k]) \o flat(k + 1)
    IN  flat(1)

\* lines 687-689: sort((a, b) => b.matchedAt - a.matchedAt): stable, descending
RECURSIVE InsertByMatchedAt(_, _)
InsertByMatchedAt(sorted, m) ==
    IF sorted = << >> THEN <<m>>
    ELSE IF Head(sorted).matchedAt >= m.matchedAt
         THEN <<Head(sorted)>> \o InsertByMatchedAt(Tail(sorted), m)
         ELSE <<m>> \o sorted

RECURSIVE SortByMatchedAt(_)
SortByMatchedAt(matches) ==
    IF matches = << >> THEN << >>
    ELSE InsertByMatchedAt(SortByMatchedAt(SubSeq(matches, 1, Len(matches) - 1)),
                           matches[Len(matches)])

\* Pet.find({ ownerId: user._id, isLost: true }) in collection order
findLostOf(store, user) ==
    LET ids == SelectSeq(order, LAMBDA id :
                   store[id].ownerId = user /\ store[id].isLost)
    IN  [k \in 1..Len(ids) |-> store[ids[k]]]

\* the body of router.get("/matches")
MatchesOf(store, user) == SortByMatchedAt(FlatMatches(findLostOf(store, user)))

\* what becomes of the rejected promise of an async handler without a catch:
\* the framework answers 500, or the request is left unanswered and the
\* runtime either warns or ends the process
HandlerRejections == {"error500", "unanswered", "unhandled"}

\* a GET request to the pets router: /pets/matches or /pets/<id>
GetPets ==
    \E user \in Users, seg \in IdSegments \cup {"matches"} :
        /\ tick.process = "up"
        /\ budget > 0
        /\ budget' = budget - 1
        /\ \E handler \in {Dispatch(GetRoutes, <<seg>>)} :
              IF handler = "matches"
              THEN /\ lastOp' = [NoOp EXCEPT !.op = "get", !.status = 200,
                                             !.payload = <<seg>>, !.user = user,
                                             !.handler = handler,
                                             !.matches = MatchesOf(pets, user)]
                   /\ UNCHANGED tick
              ELSE IF seg \notin IdSegments
              \* router.get("/:id"): Pet.findById(req.params.id) rejects with a CastError
              THEN \E rejection \in HandlerRejections :
                   /\ lastOp' = [NoOp EXCEPT !.op = "get",
                                             !.status = IF rejection = "error500"
                                                        THEN 500 ELSE 0,
                                             !.payload = <<seg>>, !.user = user,
                                             !.handler = handler]
                   /\ tick' = [tick EXCEPT !.process =
                                  IF rejection = "unhandled" THEN "down" ELSE @]
              ELSE /\ lastOp' = [NoOp EXCEPT !.op = "get",
                                             !.status = IF findById(pets, CastObjectId(seg)) = {}
                                                        THEN 404 ELSE 200,
                                             !.id = IF findById(pets, CastObjectId(seg)) = {}
                                                    THEN UnknownPetId ELSE CastObjectId(seg),
                                             !.payload = <<seg>>, !.user = user,
                                             !.handler = handler]
                   /\ UNCHANGED tick
        /\ UNCHANGED <<build, pets, scan, requests, scored, visited, hist>>
        /\ UNCHANGED scoreVars
        /\ UNCHANGED <<second, reports, order>>

(***************************************************************************)
(* The lost-pet reports (routes/lostPetRoutes.ts, mounted at /lost)        *)
(***************************************************************************)
\* reports stored in a run
MaxReports == 2

\* lostPetSchema: status is one of these, "lost" when the body has none
ReportStatuses == {"lost", "found", "closed"}
DefaultReportStatus == "lost"

\* request bodies of POST /lost: a report for pet 1 or pet 2, one created as
\* found, one for a pet the collection does not hold, one without petId
ReportBodies ==
    { [petId |-> 1], [petId |-> 2], [petId |-> 1, status |-> "found"],
      [petId |-> UnknownPetId], [status |-> "lost"] }

\* the schema's validation of a new report: petId is required, status is
\* in the enum
ValidReport(body) ==
    /\ "petId" \in DOMAIN body
    /\ "status" \in DOMAIN body => body.status \in ReportStatuses

\* LostPet.create({ ...req.body, reporterId })
NewReport(body, user) ==
    [petId |-> body.petId, reporterId |-> user,
     status |-> IF "status" \in DOMAIN body THEN body.status ELSE DefaultReportStatus]

\* Pet.findByIdAndUpdate(petId, { isLost }): no pet, no update
SetLost(store, petId, isLost) ==
    [id \in DOMAIN store |->
        IF id = petId THEN [store[id] EXCEPT !.isLost = isLost] ELSE store[id]]

\* router.post("/") of the reports
PostLost ==
    \E user \in Users, body \in ReportBodies :
        /\ tick.process = "up"
        /\ Len(reports) < MaxReports
        /\ IF ~ValidReport(body)
           THEN /\ lastOp' = [NoOp EXCEPT !.op = "postLost", !.status = 500]
                /\ UNCHANGED <<reports, pets>>
           ELSE /\ reports' = Append(reports, NewReport(body, user))
                /\ pets' = SetLost(pets, body.petId, TRUE)
                /\ lastOp' = [NoOp EXCEPT !.op = "postLost", !.status = 201,
                                          !.id = body.petId]
        /\ UNCHANGED <<build, scan, requests, scored, visited, tick, hist, budget>>
        /\ UNCHANGED scoreVars
        /\ UNCHANGED <<second, order>>

\* router.put("/:id/status") of the reports; a status outside the enum makes
\* save() reject, and the handler has no catch
PutStatus ==
    \E k \in 0..MaxReports, status \in ReportStatuses \cup {"open"} :
        /\ tick.process = "up"
        /\ IF k \notin DOMAIN reports
           THEN /\ lastOp' = [NoOp EXCEPT !.op = "putStatus", !.status = 404]
                /\ UNCHANGED <<reports, pets, tick>>
           ELSE IF status \notin ReportStatuses
           THEN \E rejection \in HandlerRejections :
                /\ lastOp' = [NoOp EXCEPT !.op = "putStatus",
                                          !.status = IF rejection = "error500"
                                                     THEN 500 ELSE 0]
                /\ tick' = [tick EXCEPT !.process =
                               IF rejection = "unhandled" THEN "down" ELSE @]
                /\ UNCHANGED <<reports, pets>>
           ELSE /\ reports' = [reports EXCEPT ![k].status = status]
                /\ pets' = SetLost(pets, reports[k].petId, status = "lost")
                /\ lastOp' = [NoOp EXCEPT !.op = "putStatus", !.status = 200,
                                          !.id = reports[k].petId]
                /\ UNCHANGED tick
        /\ UNCHANGED <<build, scan, requests, scored, visited, hist, budget>>
        /\ UNCHANGED scoreVars
        /\ UNCHANGED <<second, order>>

(***************************************************************************)
(* Specifications                                                          *)
(***************************************************************************)
NoHistory ==
    [rev |-> [id \in PetIds |-> 0], dirty |-> FALSE, succ |-> FALSE,
     cleanSinceEnd |-> FALSE,
     endPrev |-> [id \in PetIds |-> << >>], endLast |-> [id \in PetIds |-> << >>]]


InitScorerIdle ==
    /\ argLost = ProfileA
    /\ argFound = ProfileA
    /\ score = 0
    /\ last = [score |-> 0, improved |-> FALSE]
    /\ geo = GeoIdle

\* pet 2 at start: lost (possibly with a match written by an earlier update) or found
SecondPets ==
    { PetDoc(2, OwnerOf(2), ProfileA, TRUE, FALSE),
      [PetDoc(2, OwnerOf(2), ProfileA, TRUE, FALSE)
          EXCEPT !.matchResults = <<[petId |-> 3, score |-> 7, matchedAt |-> 0]>>],
      PetDoc(2, OwnerOf(2), ProfileC, FALSE, TRUE),
      PetDoc(2, OwnerOf(2), ProfileE, FALSE, TRUE) }

\* the collection holds three pets: a lost one, one that is lost or found, a found one
Init ==
    /\ build \in {"es5", "es2015"}
    /\ \E d2 \in SecondPets, p3 \in {ProfileB, ProfileC, ProfileD, ProfileE} :
          pets = [id \in PetIds |->
                    CASE id = 1 -> PetDoc(1, OwnerOf(1), ProfileA, TRUE, FALSE)
                      [] id = 2 -> d2
                      [] OTHER  -> PetDoc(id, OwnerOf(id), p3, FALSE, TRUE)]
    /\ scan = IdleScan
    /\ requests = << >>
    /\ scored = {}
    /\ visited = {}
    /\ tick = NoTick
    /\ hist = NoHistory
    /\ lastOp = NoOp
    /\ budget = MaxOps
    /\ second = IdleSecond
    /\ reports = << >>
    /\ order = IdSeq
    /\ InitScorerIdle

Next ==
    \/ ScanFindLost
    \/ ScanFindFound
    \/ ScanNotified
    \/ Restart
    \/ PutPet
    \/ ConfirmMatch

Spec == Init /\ [][Next]_vars

\* the scanner alone, with the failures of its surroundings: rejected reads
\* of the store, a process killed mid-scan
NextFaults ==
    \/ ScanFindLost
    \/ ScanFindLostRejects
    \/ ScanFindFound
    \/ ScanFindFoundRejects
    \/ ScanNotified
    \/ ScanCrash
    \/ Restart

SpecFaults == Init /\ [][NextFaults]_vars

\* the scanner with ticks that overlap: the cron task fires while the
\* invocation of the previous firing is still running
NextOverlap ==
    \/ ScanFindLost
    \/ ScanFindFound
    \/ ScanNotified
    \/ SecondFindLost
    \/ SecondFindFound
    \/ SecondNotified
    \/ Restart

SpecOverlap == Init /\ [][NextOverlap]_vars

\* orders in which a find without sort may return the three documents
Orders == {<<1, 2, 3>>, <<1, 3, 2>>, <<2, 1, 3>>, <<2, 3, 1>>, <<3, 1, 2>>, <<3, 2, 1>>}

\* the scanner over a store that returns its documents in any order; pet 2
\* may be a second found pet that qualifies against pet 1
InitOrder ==
    /\ build \in {"es5", "es2015"}
    /\ \E d2 \in SecondPets \cup {PetDoc(2, OwnerOf(2), ProfileB, FALSE, TRUE)},
          p3 \in {ProfileB, ProfileC, ProfileD, ProfileE} :
          pets = [id \in PetIds |->
                    CASE id = 1 -> PetDoc(1, OwnerOf(1), ProfileA, TRUE, FALSE)
                      [] id = 2 -> d2
                      [] OTHER  -> PetDoc(id, OwnerOf(id), p3, FALSE, TRUE)]
    /\ scan = IdleScan
    /\ requests = << >>
    /\ scored = {}
    /\ visited = {}
    /\ tick = NoTick
    /\ hist = NoHistory
    /\ lastOp = NoOp
    /\ budget = 0
    /\ second = IdleSecond
    /\ reports = << >>
    /\ order \in Orders
    /\ InitScorerIdle

NextOrder ==
    \/ ScanFindLost
    \/ ScanFindFound
    \/ ScanNotified
    \/ Restart

SpecOrder == InitOrder /\ [][NextOrder]_vars

\* requests handled in a run of the routes alone
MaxRequests == 2

\* the routes alone, between two ticks of the scanner
InitRoutes ==
    /\ build \in {"es5", "es2015"}
    /\ \E d2 \in SecondPets, p3 \in {ProfileB, ProfileC, ProfileD, ProfileE} :
          pets = [id \in PetIds |->
                    CASE id = 1 -> PetDoc(1, OwnerOf(1), ProfileA, TRUE, FALSE)
                      [] id = 2 -> d2
                      [] OTHER  -> PetDoc(id, OwnerOf(id), p3, FALSE, TRUE)]
    /\ scan = IdleScan
    /\ requests = << >>
    /\ scored = {}
    /\ visited = {}
    /\ tick = NoTick
    /\ hist = NoHistory
    /\ lastOp = NoOp
    /\ budget = MaxRequests
    /\ second = IdleSecond
    /\ reports = << >>
    /\ order = IdSeq
    /\ InitScorerIdle

NextRoutes ==
    \/ PutPet
    \/ ConfirmMatch
    \/ PostMatch
    \/ GetPets

SpecRoutes == InitRoutes /\ [][NextRoutes]_vars

InitStoreIdle ==
    /\ build = "es2015"
    /\ pets = [id \in PetIds |-> PetDoc(id, OwnerOf(id), ProfileA, FALSE, FALSE)]
    /\ scan = IdleScan
    /\ requests = << >>
    /\ scored = {}
    /\ visited = {}
    /\ tick = NoTick
    /\ hist = NoHistory
    /\ lastOp = NoOp
    /\ budget = 0
    /\ second = IdleSecond
    /\ reports = << >>
    /\ order = IdSeq

InitScore ==
    /\ InitStoreIdle
    /\ argLost \in PetLikeDom("lost")
    /\ argFound \in PetLikeDom("found")
    /\ score = computeMatchScore(argLost, argFound, DefaultScoreRadiusKm)
    /\ last = [score |-> score, improved |-> FALSE]
    /\ geo = GeoIdle

NextScore ==
    \/ ScoreSetSpecies
    \/ ScoreSetBreed
    \/ ScoreSetFurColor
    \/ ScoreSetEyeColor
    \/ ScoreSetAge
    \/ ScoreSetCoordinates

SpecScore == InitScore /\ [][NextScore]_vars

InitGeo ==
    /\ InitStoreIdle
    /\ argLost = ProfileA
    /\ argFound = ProfileA
    /\ score = 0
    /\ last = [score |-> 0, improved |-> FALSE]
    /\ \E a \in GeoDom, b \in GeoDom : geo = Measure(a, b)

NextGeo ==
    \/ GeoSetA
    \/ GeoSetB

SpecGeo == InitGeo /\ [][NextGeo]_vars

\* the report routes alone, on pets none of which is lost
InitReports ==
    /\ InitStoreIdle
    /\ InitScorerIdle

NextReports ==
    \/ PostLost
    \/ PutStatus

SpecReports == InitReports /\ [][NextReports]_vars

(***************************************************************************)
(* Properties                                                              *)
(***************************************************************************)
\* the scanner asked for a notification about (lost, found) in the current tick
RequestedNow(lost, found) ==
    \E k \in 1..Len(requests) :
        /\ requests[k].tick = tick.n
        /\ requests[k].lost = lost
        /\ requests[k].matchPetId = found

\* number of entries of a match list that reference candidate c
Occurrences(list, c) == Cardinality({k \in 1..Len(list) : list[k].petId = c})

OpenLost(id) == pets[id].isLost /\ ~pets[id].isFound
OpenFound(id) == pets[id].isFound /\ ~pets[id].isLost

\* C1: over any sequence of ticks the scanner requests a notification at most
\* once for a qualifying (lost, found) pair as long as neither pet has been
\* changed: no two requests name the same pair at the same revisions of both.
C1_NotifiedOncePerPair ==
    \A a, b \in 1..Len(requests) :
        a < b =>
            ~ /\ requests[a].lost = requests[b].lost
              /\ requests[a].matchPetId = requests[b].matchPetId
              /\ requests[a].revLost = requests[b].revLost
              /\ requests[a].revFound = requests[b].revFound

\* C2: when a tick has completed without error (and no handler wrote to the
\* store meanwhile), every open lost pet L and open found pet F at most 10 km
\* apart with a score of at least 7 has, in the stored match list of L, an
\* entry that references F with that score.
C2_QualifyingPairsStored ==
    (scan.pc = "idle" /\ tick.outcome = "completed" /\ ~hist.dirty) =>
        \A l, f \in PetIds :
            (OpenLost(l) /\ OpenFound(f)) =>
                LET d  == getGeoDistance(ScannerCoords(pets[l]), ScannerCoords(pets[f]))
                    sc == computeMatchScore(toObject(pets[l]), toObject(pets[f]),
                                            DefaultScoreRadiusKm)
                IN  (d <= 10 * MetresPerKm /\ sc # TypeError /\ sc >= 7) =>
                        \E k \in 1..Len(pets[l].matchResults) :
                            /\ pets[l].matchResults[k].petId = f
                            /\ pets[l].matchResults[k].score = sc

\* C3: in every reachable state a candidate pet id appears at most once in any
\* one pet's stored matchResults list.
C3_NoDuplicateCandidates ==
    \A id \in PetIds : \A c \in PetIds : Occurrences(pets[id].matchResults, c) <= 1

\* C4: when two runs of the scan follow each other with no pet modified in
\* between, every stored match list has after the second run the length it
\* had after the first, and no candidate id occurs in it more often than before.
C4_RescanKeepsLists ==
    hist.succ =>
        \A id \in PetIds :
            /\ Len(hist.endLast[id]) = Len(hist.endPrev[id])
            /\ \A c \in PetIds :
                 Occurrences(hist.endLast[id], c) <= Occurrences(hist.endPrev[id], c)

\* two runs in succession, the second with a qualifying pair
C4_Witness ==
    /\ hist.succ
    /\ tick.finished >= 2
    /\ \E e \in scored : e.score # TypeError /\ e.score >= 7

\* C5: a pair whose coarse distance exceeds 10 km is skipped before the scorer
\* is invoked (it is not scored, nothing is pushed for it, no notification is
\* requested); a pair at 10 km or less, exactly 10 km included, is scored.
C5_FarPairsSkipped ==
    \A v \in visited :
        LET wasScored == \E e \in scored : e.lost = v.lost /\ e.found = v.found
        IN  IF v.distance > 10 * MetresPerKm
            THEN ~wasScored /\ ~RequestedNow(v.lost, v.found)
            ELSE wasScored

\* one tick has skipped a pair beyond 10 km and scored a pair at exactly 10 km
C5_Witness ==
    /\ \E v \in visited : v.distance > 10 * MetresPerKm
    /\ \E v \in visited :
         /\ v.distance = 10 * MetresPerKm
         /\ \E e \in scored : e.lost = v.lost /\ e.found = v.found

\* C6: a pair that passed the coarse filter and was scored qualifies exactly
\* when its score is at least 7: then the lost pet's match list holds an entry
\* for the found pet and a notification is requested; below 7 nothing is
\* pushed and nothing requested.
C6_ThresholdBoundary ==
    \A e \in scored :
        e.score # TypeError =>
            IF e.score >= 7
            THEN e.listed /\ RequestedNow(e.lost, e.found)
            ELSE ~e.pushed /\ ~RequestedNow(e.lost, e.found)

\* one tick has scored a pair at exactly 7 (recorded, notified) and a pair at 6
C6_Witness ==
    /\ \E e \in scored : e.score = 7 /\ e.pushed /\ RequestedNow(e.lost, e.found)
    /\ \E e \in scored : e.score = 6 /\ ~RequestedNow(e.lost, e.found)

\* C7: when either species is absent or the two species differ ignoring case,
\* computeMatchScore returns 0 whatever the other attributes are.
C7_SpeciesGate ==
    SpeciesLevel(argLost, argFound) = 0 => score = 0

\* a pair that scored 17 has had one species changed: the species now differ
\* while every other attribute still matches, and the score is 0
C7_Witness ==
    /\ last.score = 17
    /\ SpeciesLevel(argLost, argFound) = 0
    /\ BreedLevel(argLost, argFound) = 2
    /\ FurLevel(argLost, argFound) = 1
    /\ EyeLevel(argLost, argFound) = 1
    /\ AgeLevel(argLost, argFound) = 1
    /\ LocationLevel(argLost, argFound) = 1
    /\ score = 0

\* C8: for a pair that passes the species gate the score is the sum of the
\* weights: breed 4 (equal ignoring case) or 2 (one within the other), fur
\* colour 3, eye colour 2, age 2, location 6; it lies in 0..17 and is 17
\* exactly when all five attributes match.
C8_ScoreIsWeightSum ==
    SpeciesLevel(argLost, argFound) = 1 =>
        LET lv == Levels(argLost, argFound)
        IN  /\ score = 2 * lv[2] + 3 * lv[3] + 2 * lv[4] + 2 * lv[5] + 6 * lv[6]
            /\ score \in 0..17
            /\ score = 17 <=> (lv[2] = 2 /\ lv[3] = 1 /\ lv[4] = 1 /\ lv[5] = 1 /\ lv[6] = 1)

\* the last attribute has been made to match: all five match, the pair being
\* exactly 3 km apart
C8_Witness ==
    /\ last.improved
    /\ SpeciesLevel(argLost, argFound) = 1
    /\ score = 17
    /\ MetresApart(argLost, argFound) = 3000

\* C9: when one attribute of one argument is changed so that this attribute
\* matches better than before (breed: none, substring, exact) and all others
\* match as before, the score does not decrease.
C9_MonotonicScoring ==
    last.improved => score >= last.score

\* an age mismatch has been turned into a match, which raised the score
C9_Witness ==
    /\ last.improved
    /\ AgeLevel(argLost, argFound) = 1
    /\ score = last.score + 2

\* C10: after a successful confirm-match(L, C) the pet L is neither lost nor
\* found, its match list is empty, and no other pet's match list holds an
\* entry that references C.
C10_ConfirmMatchResets ==
    (lastOp.op = "confirm" /\ lastOp.status = 200) =>
        /\ ~pets[lastOp.id].isLost
        /\ ~pets[lastOp.id].isFound
        /\ pets[lastOp.id].matchResults = << >>
        /\ \A o \in PetIds \ {lastOp.id} :
             Occurrences(pets[o].matchResults, lastOp.matchedPetId) = 0

\* pet 1 confirmed candidate 3, whose entry was purged from the list of pet 2
C10_Witness ==
    /\ lastOp.op = "confirm"
    /\ lastOp.status = 200
    /\ lastOp.id = 1
    /\ lastOp.matchedPetId = 3
    /\ hist.rev[2] >= 1
    /\ hist.rev[1] >= 1

\* C15: getGeoDistance gives the same value for (A, B) and for (B, A), and 0
\* for a point and itself.
C15_DistanceSymmetric ==
    /\ geo.ab = geo.ba
    /\ geo.aa = 0
    /\ geo.a = geo.b => geo.ab = 0

\* two points that differ in longitude and latitude, a nonzero distance apart
C15_Witness ==
    /\ geo.a.v[1] # geo.b.v[1]
    /\ geo.a.v[2] # geo.b.v[2]
    /\ geo.a.v[1] # geo.a.v[2]
    /\ geo.ab > 10 * MetresPerKm
    /\ geo.ab = geo.ba

\* C17: the age contribution is 2 exactly when both ages are present, both
\* have a leading number and the two numbers differ by at most 1; otherwise
\* it is 0; computeMatchScore raises no error in either case.
C17_AgeRule ==
    /\ AgePoints(argLost, argFound) = 2 * AgeLevel(argLost, argFound)
    /\ score # TypeError

\* ages "3" and "4" (a difference of exactly 1): setting the age raised the score by 2
C17_Witness ==
    /\ argLost.age = sAge3
    /\ argFound.age = sAge4
    /\ last.improved
    /\ score = last.score + 2

\* C18: when at least one record lacks coordinates, [0,0] stands in for them,
\* the distance is finite and beyond the scoring radius, the pair gets no
\* location points and no error is raised.
C18_MissingCoordinatesScoreNothing ==
    (argLost.coordinates = NoCoords \/ argFound.coordinates = NoCoords) =>
        /\ score # TypeError
        /\ ScorerDistance(argLost, argFound) \notin {NaN, TypeError}
        /\ ScorerDistance(argLost, argFound) > DefaultScoreRadiusKm * MetresPerKm
        /\ LocationPoints(ScorerDistance(argLost, argFound), DefaultScoreRadiusKm) = 0

\* the pair the loops take up after pair (i, j - 1), or << >> when the loops end
PairAfter(sc) ==
    IF sc.j <= Len(sc.foundPets) THEN <<sc.i, sc.j>>
    ELSE IF sc.i < Len(sc.lostPets) /\ Len(sc.foundPets) >= 1 THEN <<sc.i + 1, 1>>
    ELSE << >>

WasVisited(set, sc, pair) ==
    \E v \in set : /\ v.lost = sc.lostPets[pair[1]].id
                    /\ v.found = sc.foundPets[pair[2]].id

\* C11: when the awaited sendNotification settles, whatever happened inside it
\* (message sent, user not found, no device token, send error), the scan tick
\* does not end with an exception, the loops take up the next pair if there is
\* one, the stored documents are untouched, and the entry pushed for the
\* notified pair is still on the lost pet's in-memory match list.
C11_NotificationFailureAbsorbed ==
    [][(scan.pc = "notify" /\ tick'.outcome # "crashed") =>
          /\ tick'.outcome # "threw"
          /\ pets' = pets
          /\ PairAfter(scan) # << >> => WasVisited(visited', scan, PairAfter(scan))
          /\ scan'.pc = "notify" =>
                alreadyMatched(scan'.lostPets[scan.i].matchResults,
                               scan.foundPets[scan.j - 1].id)]_vars

\* a notification has failed, and the scan has gone on to a later pair that
\* qualified too and now awaits its own notification
C11_Witness ==
    /\ scan.pc = "notify"
    /\ tick.notify = "failed"
    /\ \E k \in 1..Len(requests) :
          /\ k < Len(requests)
          /\ requests[k].tick = tick.n
          /\ alreadyMatched(scan.lostPets[1].matchResults, requests[k].matchPetId)

\* C12: when a read of the store fails during a tick, the failure is logged
\* and the scheduler keeps running (the process that holds the cron task is
\* still up), so that the next tick can start.
C12_StoreErrorEndsTickOnly ==
    tick.outcome = "storeError" => tick.logged /\ tick.process = "up"

\* C13: when the process has crashed in the middle of a tick, every pair that
\* the tick had scored at 7 or more before the crash has its entry on the
\* lost pet's stored match list.
C13_CrashKeepsProcessedPairs ==
    tick.outcome = "crashed" =>
        \A e \in scored :
            (e.score # TypeError /\ Qualifies(e.score)) =>
                alreadyMatched(pets[e.lost].matchResults, e.found)

\* the stored pet id as the scorer is meant to see it: its attributes and the
\* coordinate pair that the coarse filter reads
WithCoordinatePair(id) ==
    PetLike(pets[id].species, pets[id].breed, pets[id].age,
            pets[id].furColor, pets[id].eyeColor, ScannerCoords(pets[id]))

\* the score of the stored pet id against a payload
ScoreAgainst(id, payload) ==
    computeMatchScore(WithCoordinatePair(id), payload, DefaultScoreRadiusKm)

ExpectedMatches(payload) ==
    {id \in PetIds : OpenLost(id) /\ ScoreAgainst(id, payload) >= 8}

\* C14: a match query answered with 200 lists exactly the pets that are lost
\* and not found and score 8 or more against the payload, each once and with
\* that score, in non-increasing order of score.
C14_MatchQueryReturnsCandidates ==
    (lastOp.op = "match" /\ lastOp.status = 200) =>
        /\ {lastOp.matches[k].lostPet : k \in 1..Len(lastOp.matches)}
              = ExpectedMatches(lastOp.payload[1])
        /\ Len(lastOp.matches) = Cardinality(ExpectedMatches(lastOp.payload[1]))
        /\ \A k \in 1..Len(lastOp.matches) :
              lastOp.matches[k].score
                  = ScoreAgainst(lastOp.matches[k].lostPet, lastOp.payload[1])
        /\ \A k \in 1..(Len(lastOp.matches) - 1) :
              lastOp.matches[k].score >= lastOp.matches[k + 1].score

\* C16: every pair that passed the coarse filter in the running tick was
\* scored without an error, and its score is the one the scorer gives on the
\* coordinate pairs of the coarse filter: the attribute points plus 6 exactly
\* when the distance of the coarse filter is at most 3 km.
C16_ScorerSeesFilterCoordinates ==
    \A e \in scored :
        /\ e.score # TypeError
        /\ e.score = ScoreAgainst(e.lost, WithCoordinatePair(e.found))

\* C19: once confirm-match(L, C) for a lost pet L has been answered with 200,
\* a tick that starts afterwards requests no notification about C (the last
\* request handled is the confirmation, and the running or last tick began
\* after it).
C19_ConfirmedCandidateClosed ==
    (lastOp.op = "confirm" /\ lastOp.status = 200 /\ lastOp.wasLost /\ ~hist.dirty) =>
        \A k \in 1..Len(requests) :
            requests[k].tick = tick.n => requests[k].matchPetId # lastOp.matchedPetId

\* the list new is the list old, or old with one entry appended, or empty
AppendedOrCleared(old, new) ==
    \/ new = old
    \/ new = << >>
    \/ Len(new) = Len(old) + 1 /\ SubSeq(new, 1, Len(old)) = old

\* C20: every step leaves each pet's stored match list as it was, appends one
\* entry to it, or empties it.
C20_ListsOnlyAppendedOrCleared ==
    [][\A id \in PetIds :
          AppendedOrCleared(pets[id].matchResults, pets'[id].matchResults)]_vars

\* C21: at the moment the scan has requested a notification for the pair
\* (L, F) and awaits it, the request is addressed to the owner of L, carries
\* the id of F, and the stored match list of L holds an entry for F.
C21_NotifiedAfterStored ==
    scan.pc = "notify" =>
        /\ requests[Len(requests)].lost = scan.lostPets[scan.i].id
        /\ requests[Len(requests)].matchPetId = scan.foundPets[scan.j - 1].id
        /\ requests[Len(requests)].userId = pets[requests[Len(requests)].lost].ownerId
        /\ alreadyMatched(pets[requests[Len(requests)].lost].matchResults,
                          requests[Len(requests)].matchPetId)

\* C22: when a second invocation of the scan has run while the first was in
\* progress and both have ended, no stored match list holds two entries for
\* the same found pet.
C22_OverlapKeepsListsUnique ==
    (scan.pc = "idle" /\ second.pc = "idle" /\ second.finished >= 1) =>
        \A id \in PetIds : \A c \in PetIds : Occurrences(pets[id].matchResults, c) <= 1

\* both invocations have ended, and each of them has taken up the same
\* qualifying pair: two notifications of the overlapping ticks name it
C22_Witness ==
    /\ scan.pc = "idle"
    /\ second.pc = "idle"
    /\ second.finished >= 1
    /\ tick.process = "up"
    /\ \E a, b \in 1..Len(requests) :
          /\ a < b
          /\ requests[a].lost = requests[b].lost
          /\ requests[a].matchPetId = requests[b].matchPetId
          /\ tick.finished = 1

\* the loops run from r to their end, every awaited notification settling
RECURSIVE RunToEnd(_)
RunToEnd(r) ==
    IF r.pc = "notify" THEN RunToEnd(RunLoop([r EXCEPT !.pc = "run"])) ELSE r

\* the pairs for which a run has pushed an entry
PushedPairs(set) == {<<e.lost, e.found>> : e \in {x \in set : x.pushed}}

\* a whole tick over the store as it is, the documents returned in order seq
TickUnder(seq) ==
    RunToEnd(RunLoop([RunState(findOrdered(seq, pets, TRUE, FALSE),
                               findOrdered(seq, pets, FALSE, TRUE), 1, 1)
                         EXCEPT !.requests = << >>, !.scored = {}, !.visited = {}]))

\* C23: when a tick has ended, the set of pairs for which it pushed a match
\* entry is the set that a tick over the same store pushes when the
\* documents come in the natural order, whatever order they came in.
C23_RecordedPairsOrderIndependent ==
    (scan.pc = "idle" /\ tick.finished >= 1 /\ tick.outcome \in {"completed", "threw"}) =>
        PushedPairs(scored) = PushedPairs(TickUnder(IdSeq).scored)

\* a tick over documents returned in reverse order has completed and has
\* pushed entries for two pairs
C23_Witness ==
    /\ order = <<3, 2, 1>>
    /\ scan.pc = "idle"
    /\ tick.outcome = "completed"
    /\ Cardinality(PushedPairs(scored)) >= 2

\* a stored document without its match list
WithoutMatches(doc) == [doc EXCEPT !.matchResults = << >>]

\* C24: a step of the scan leaves every stored pet in the collection, with
\* all its fields other than the match list as they were, isLost and isFound
\* included, and leaves a pet that is not an open lost candidate entirely as
\* it was.
C24_ScanChangesOnlyLostLists ==
    [][scan' # scan =>
          /\ DOMAIN pets' = DOMAIN pets
          /\ \A id \in PetIds :
                /\ WithoutMatches(pets'[id]) = WithoutMatches(pets[id])
                /\ ~OpenLost(id) => pets'[id] = pets[id]]_vars

\* the scan has pushed an entry for a found pet and awaits the notification
C24_Witness ==
    /\ scan.pc = "notify"
    /\ \E e \in scored : e.pushed /\ OpenFound(e.found) /\ OpenLost(e.lost)

\* C25: a GET /pets/matches request is answered by the matches handler, with
\* status 200 and the entries of the match lists of the requesting user's
\* lost pets, most recent first.
C25_MatchesRouteAnswers ==
    (lastOp.op = "get" /\ lastOp.payload = <<"matches">>) =>
        /\ lastOp.handler = "matches"
        /\ lastOp.status = 200
        /\ lastOp.matches = MatchesOf(pets, lastOp.user)

\* the ids of the documents a find returned
IdsOf(docs) == {docs[k].id : k \in 1..Len(docs)}

\* C26: within a tick no pet is both a lost and a found candidate, every
\* lost candidate was read as lost and not found and every found candidate as
\* found and not lost, and no entry is pushed for a pet against itself.
C26_CandidateSetsDisjoint ==
    /\ IdsOf(scan.lostPets) \cap IdsOf(scan.foundPets) = {}
    /\ \A k \in 1..Len(scan.lostPets) :
          scan.lostPets[k].isLost /\ ~scan.lostPets[k].isFound
    /\ \A k \in 1..Len(scan.foundPets) :
          scan.foundPets[k].isFound /\ ~scan.foundPets[k].isLost
    /\ \A e \in scored : e.pushed => e.lost # e.found

\* C27: once a confirm-match on a lost pet has completed, no later step of
\* a tick requests a notification about that pet.
C27_NoNotificationAfterConfirm ==
    [][(/\ lastOp.op = "confirm"
        /\ lastOp.status = 200
        /\ lastOp.wasLost
        /\ Len(requests') > Len(requests))
       => requests'[Len(requests')].lost # lastOp.id]_vars

\* the step is a confirm-match request answered with one of the statuses
ConfirmStep(statuses) ==
    /\ budget' < budget
    /\ lastOp'.op = "confirm"
    /\ lastOp'.status \in statuses

\* the entries of a list that reference another candidate than c
OtherEntries(matchResults, c) == SelectSeq(matchResults, LAMBDA m : m.petId # c)

\* C28: a successful confirm-match(L, C) leaves every other pet as it was
\* except that the entries referencing C are gone from its match list: its
\* flags and other fields, and its entries referencing other candidates, in
\* their order, are unchanged.
C28_ConfirmTouchesOnlyCandidateEntries ==
    [][ConfirmStep({200}) =>
          \A o \in PetIds \ {lastOp'.id} :
              /\ WithoutMatches(pets'[o]) = WithoutMatches(pets[o])
              /\ pets'[o].matchResults =
                      OtherEntries(pets[o].matchResults, lastOp'.matchedPetId)]_vars

\* pet 1 confirmed candidate 3; pet 2 lost its entry for 3 and kept another
C28_Witness ==
    /\ lastOp.op = "confirm"
    /\ lastOp.status = 200
    /\ lastOp.id = 1
    /\ lastOp.matchedPetId = 3
    /\ hist.rev[2] >= 2
    /\ Len(pets[2].matchResults) = 1
    /\ pets[2].matchResults[1].petId = 2

\* C29: confirm-match answers 400 to a request without matchedPetId, 404 to
\* one for an unknown pet and 403 to one from a caller who does not own the
\* pet, and in these three cases leaves every pet as it was.
C29_RejectedConfirmChangesNothing ==
    [][ConfirmStep({200, 400, 403, 404}) =>
          /\ ~lastOp'.req.given => lastOp'.status = 400
          /\ (lastOp'.req.given /\ ~lastOp'.req.known) => lastOp'.status = 404
          /\ (lastOp'.req.given /\ lastOp'.req.known /\ ~lastOp'.req.owner)
                 => lastOp'.status = 403
          /\ lastOp'.status \in {400, 403, 404} => pets' = pets]_vars

\* a list had been written before a confirm-match was refused with 403
C29_Witness ==
    /\ lastOp.op = "confirm"
    /\ lastOp.status = 403
    /\ lastOp.req.given /\ lastOp.req.known /\ ~lastOp.req.owner
    /\ \E o \in PetIds : pets[o].matchResults # << >>

\* C30: a pet is flagged lost exactly when some report that references it
\* has the status "lost".
C30_LostIffOpenReport ==
    \A id \in PetIds :
        pets[id].isLost <=>
            \E k \in DOMAIN reports : reports[k].petId = id /\ reports[k].status = "lost"

====
